---- MODULE Spec2Model ----
(***************************************************************************)
(* A model of air_qual_light: the Sensor value holder with its lazy TTL,   *)
(* the AQI conversion, the consensus of the sensors' readings, the LED     *)
(* strip, the concurrent fetch of the sensors, the poll loop of cli.main   *)
(* and the status server thread that reads the sensors.                    *)
(*                                                                         *)
(* Numbers are exact fixed-point integers: a PM2.5 concentration is in     *)
(* tenths of ug/m3, an AQI is in 1/AqiUnit index points, a temperature in  *)
(* 1/18 degree Celsius, humidity and pressure in halves of their unit.     *)
(* Time is in ticks; sensor_ttl_min is SensorTtl ticks.                    *)
(***************************************************************************)
EXTENDS Integers, Sequences, FiniteSets, TLC

\* ------------------------------------------------------------- bounds
NumSensors == 2
NumLeds == 2
NumReadings == 1
SensorTtl == 1
TimeSpan == 2
MaxAnimLoops == 1
LightIntensity == 50
DayLen == 3
MantBits == 8
MaxValues == 7
MaxPm == 5010

\* --------------------------------------------------- program constants
BootLoops == 3
ErrorLoops == 20
UnhealthyLimit == 3
Epoch == 0

Sensors == 1..NumSensors
StartTime == SensorTtl + 2
MaxTime == StartTime + TimeSpan

\* One AQI index point, in model units: every band's remap is then exact, and
\* so is the mean of two AQI values.
AqiUnit == 2 * 12 * 47 * 19 * 5
TempUnit == 2 * 9

\* ------------------------------------------------------------ values
\* Python's None as a value, and a float x.
NoneVal == [some |-> FALSE, v |-> 0]
Some(x) == [some |-> TRUE, v |-> x]

\* The payload slot Sensor._data_dict. kind "none" is None, kind "doc" is a
\* sensor document (data_time_stamp ts, the fields of reading rd), kind
\* "other" is any other JSON object (an error document of the endpoint).
NonePayload == [kind |-> "none", ts |-> 0, rd |-> 0]
DocPayload(ts, rd) == [kind |-> "doc", ts |-> ts, rd |-> rd]
OtherPayload == [kind |-> "other", ts |-> 0, rd |-> 0]

\* The fields of reading rd as the endpoint reports them: pm2.5_atm in tenths
\* of ug/m3, temperature in degrees Fahrenheit, humidity in %, pressure in hPa.
FieldPm(rd) == CASE rd = 1 -> 100 [] rd = 2 -> 4000 [] OTHER -> 120
FieldTemperature(rd) == 59 + 9 * rd
FieldHumidity(rd) == 40 + rd
FieldPressure(rd) == 1000 + rd

\* ------------------------------------------------------- data.py: AQI
remap(value, low1, high1, low2, high2) ==
    low2 * AqiUnit + (((high2 - low2) * AqiUnit) \div (high1 - low1)) * (value - low1)

\* calculate_aqi with the cap at the end of the last band.
calculate_aqiLateCap(pm) ==
    IF pm > 5005 THEN 500 * AqiUnit
    ELSE IF pm > 3505 THEN remap(pm, 3505, 5005, 400, 500)
    ELSE IF pm > 2505 THEN remap(pm, 2505, 3505, 300, 400)
    ELSE IF pm > 1505 THEN remap(pm, 1505, 2505, 200, 300)
    ELSE IF pm > 555 THEN remap(pm, 555, 1505, 150, 200)
    ELSE IF pm > 355 THEN remap(pm, 355, 555, 100, 150)
    ELSE IF pm > 120 THEN remap(pm, 120, 355, 50, 100)
    ELSE IF pm > 0 THEN remap(pm, 0, 120, 0, 50)
    ELSE pm * (AqiUnit \div 10)

\* calculate_aqi of a concentration in tenths, in 1/AqiUnit.
calculate_aqi(pm) ==
    IF pm > 5000 THEN 500 * AqiUnit
    ELSE IF pm > 3505 THEN remap(pm, 3505, 5005, 400, 500)
    ELSE IF pm > 2505 THEN remap(pm, 2505, 3505, 300, 400)
    ELSE IF pm > 1505 THEN remap(pm, 1505, 2505, 200, 300)
    ELSE IF pm > 555 THEN remap(pm, 555, 1505, 150, 200)
    ELSE IF pm > 355 THEN remap(pm, 355, 555, 100, 150)
    ELSE IF pm > 120 THEN remap(pm, 120, 355, 50, 100)
    ELSE IF pm > 0 THEN remap(pm, 0, 120, 0, 50)
    ELSE pm * (AqiUnit \div 10)

\* ---------------------------------------------------- data.py: Sensor
\* Sensor.update_data: json.loads of the response text replaces the slot of
\* sensor s and of no other.
update_data(d, s, payload) == [d EXCEPT ![s] = payload]

\* Sensor.data_time_stamp: no TTL check; the epoch when there is no payload.
data_time_stamp(slot) ==
    IF slot.kind = "none" THEN [exc |-> "", v |-> Epoch]
    ELSE IF slot.kind = "doc" THEN [exc |-> "", v |-> slot.ts]
    ELSE [exc |-> "KeyError", v |-> Epoch]

\* The comparison with >= for >.
TtlOverOrAt(t, ts) == t - ts >= SensorTtl

\* The comparison of Sensor._ttl_expired.
TtlOver(t, ts) == t - ts > SensorTtl

\* Sensor._ttl_expired at time t: the slot afterwards, and what it raised.
ttl_expired(slot, t) ==
    LET ts == data_time_stamp(slot)
    IN  IF ts.exc # "" THEN [slot |-> slot, exc |-> ts.exc]
        ELSE IF TtlOver(t, ts.v) THEN [slot |-> NonePayload, exc |-> ""]
        ELSE [slot |-> slot, exc |-> ""]

\* A metric accessor: _ttl_expired, then the field of the payload or None. One
\* call of an accessor is one step: it reads the clock once.
Accessor(slot, t, field) ==
    LET e == ttl_expired(slot, t)
    IN  IF e.exc # "" THEN [slot |-> e.slot, val |-> NoneVal, exc |-> e.exc]
        ELSE IF e.slot.kind # "none"
             THEN [slot |-> e.slot, val |-> Some(field), exc |-> ""]
             ELSE [slot |-> e.slot, val |-> NoneVal, exc |-> ""]

\* The temperature left in degrees Fahrenheit.
temperatureUnconverted(slot, t) == Accessor(slot, t, FieldTemperature(slot.rd) * TempUnit)

\* Sensor.temperature, unit 'C': (temp - 32) * 5/9.
temperature(slot, t) == Accessor(slot, t, (FieldTemperature(slot.rd) - 32) * 5 * (TempUnit \div 9))
humidity(slot, t) == Accessor(slot, t, FieldHumidity(slot.rd) * 2)
pressure(slot, t) == Accessor(slot, t, FieldPressure(slot.rd) * 2)
pm2_5_atm(slot, t) == Accessor(slot, t, FieldPm(slot.rd))
location(slot, t) ==
    LET a == Accessor(slot, t, slot.rd)
    IN  IF a.val.some \/ a.exc # "" THEN a ELSE [a EXCEPT !.val = Some(0)]

\* Sensor.us_epa_pm2_5_aqi, first half: _ttl_expired, then the test
\* "self.pm2_5_atm is None". val.some says that the test found a value.
aqi_check(slot, t) ==
    LET e == ttl_expired(slot, t)
    IN  IF e.exc # "" THEN [slot |-> e.slot, val |-> NoneVal, exc |-> e.exc]
        ELSE pm2_5_atm(e.slot, t)

\* Sensor.us_epa_pm2_5_aqi, second half: calculate_aqi(self.pm2_5_atm), a second
\* read of the slot; calculate_aqi(None) raises TypeError.
aqi_value(slot, t) ==
    LET p == pm2_5_atm(slot, t)
    IN  IF p.exc # "" THEN p
        ELSE IF ~p.val.some THEN [slot |-> p.slot, val |-> NoneVal, exc |-> "TypeError"]
        ELSE [slot |-> p.slot, val |-> Some(calculate_aqi(p.val.v)), exc |-> ""]

\* The concentration returned for the index.
us_epa_pm2_5_aqiRaw(slot, t) == pm2_5_atm(slot, t)

\* Sensor.us_epa_pm2_5_aqi with both halves at the same time t.
us_epa_pm2_5_aqi(slot, t) ==
    LET c == aqi_check(slot, t)
    IN  IF c.exc # "" \/ ~c.val.some THEN c ELSE aqi_value(c.slot, t)

\* What one read of a sensor reported: the operation, the sensor, the slot
\* before and after, what it raised, and the values it returned (a value the
\* operation does not return is left at its no-data default).
NoRead ==
    [op |-> "", s |-> 0, before |-> NonePayload, after |-> NonePayload, exc |-> "",
     ts |-> Epoch, loc |-> Some(0), pm |-> NoneVal, aqi |-> NoneVal,
     temp |-> NoneVal, hum |-> NoneVal, pres |-> NoneVal]

\* One accessor call, as a read.
ReadOf(op, s, slot, r) ==
    [NoRead EXCEPT !.op = op, !.s = s, !.before = slot, !.after = r.slot, !.exc = r.exc,
                   !.pm = IF op = "aqi_check" THEN r.val ELSE NoneVal,
                   !.aqi = IF op = "aqi_value" THEN r.val ELSE NoneVal,
                   !.temp = IF op = "temperature" THEN r.val ELSE NoneVal,
                   !.hum = IF op = "humidity" THEN r.val ELSE NoneVal,
                   !.pres = IF op = "pressure" THEN r.val ELSE NoneVal]

\* Sensor.__str__ at time t: data_time_stamp first, then the accessors in the
\* order of the f-string.
SensorStr(s, slot, t) ==
    LET ts == data_time_stamp(slot)
        a == us_epa_pm2_5_aqi(slot, t)
        te == temperature(a.slot, t)
        hu == humidity(te.slot, t)
        pr == pressure(hu.slot, t)
        lo == location(pr.slot, t)
    IN  IF ts.exc # ""
        THEN [NoRead EXCEPT !.op = "__str__", !.s = s, !.before = slot, !.after = slot,
                            !.exc = ts.exc]
        ELSE [op |-> "__str__", s |-> s, before |-> slot, after |-> lo.slot,
              exc |-> IF a.exc # "" THEN a.exc ELSE "",
              ts |-> ts.v, loc |-> lo.val, pm |-> NoneVal, aqi |-> a.val,
              temp |-> te.val, hum |-> hu.val, pres |-> pr.val]

\* Sensor.data2dict at time t: data_timestamp is read before the first accessor
\* that checks the TTL; temperature_f is left out (temperature_c * 9/5 + 32).
data2dict(s, slot, t) ==
    LET ts == data_time_stamp(slot)
        lo == location(slot, t)
        pm == pm2_5_atm(lo.slot, t)
        a == us_epa_pm2_5_aqi(pm.slot, t)
        te == temperature(a.slot, t)
        hu == humidity(te.slot, t)
        pr == pressure(hu.slot, t)
    IN  IF ts.exc # ""
        THEN [NoRead EXCEPT !.op = "data2dict", !.s = s, !.before = slot, !.after = slot,
                            !.exc = ts.exc]
        ELSE [op |-> "data2dict", s |-> s, before |-> slot, after |-> pr.slot,
              exc |-> IF a.exc # "" THEN a.exc ELSE "",
              ts |-> ts.v, loc |-> lo.val, pm |-> pm.val, aqi |-> a.val,
              temp |-> te.val, hum |-> hu.val, pres |-> pr.val]

\* ------------------------------------------------ numpy: the floats
\* The floats that np.mean adds are binary floating-point numbers; the model
\* keeps MantBits significant bits in place of the 53 of a double. A float is
\* held as a whole number of units of 1/FloatUnit, and is not negative.
FloatUnit == 2^(MantBits - 1)

RECURSIVE BitLen(_)
BitLen(x) == IF x = 0 THEN 0 ELSE 1 + BitLen(x \div 2)

\* The spacing of the floats around x.
Granule(x) == IF BitLen(x) > MantBits THEN 2^(BitLen(x) - MantBits) ELSE 1

\* x / d, rounded to the nearest float, a tie to the even one.
FloatDiv(x, d) ==
    LET g == d * Granule(x \div d)
        q == x \div g
        r == x % g
    IN  Granule(x \div d) * (IF 2 * r > g \/ (2 * r = g /\ q % 2 = 1) THEN q + 1 ELSE q)

\* a + b, rounded to the nearest float.
FloatAdd(a, b) == FloatDiv(a + b, 1)

\* acc + xs[i] + xs[i+1] + ..., every partial sum rounded.
RECURSIVE SumFrom(_, _, _)
SumFrom(acc, xs, i) ==
    IF i > Len(xs) THEN acc ELSE SumFrom(FloatAdd(acc, xs[i]), xs, i + 1)

\* numpy's sum of a contiguous array of fewer than 16 floats: a loop in the
\* order of the array below 8 elements, else eight accumulators added in
\* pairs and the rest added in order.
PairwiseSum(xs) ==
    IF Len(xs) < 8 THEN SumFrom(0, xs, 1)
    ELSE SumFrom(FloatAdd(FloatAdd(FloatAdd(xs[1], xs[2]), FloatAdd(xs[3], xs[4])),
                          FloatAdd(FloatAdd(xs[5], xs[6]), FloatAdd(xs[7], xs[8]))),
                 xs, 9)

\* numpy.mean of a non-empty array: the sum in the order of the array, divided
\* by the length.
np_mean(xs) == FloatDiv(PairwiseSum(xs), Len(xs))

\* ------------------------------------------- data.py: calculate_consensus
RECURSIVE Insert(_, _)
Insert(x, sorted) ==
    IF sorted = <<>> THEN <<x>>
    ELSE IF x <= Head(sorted) THEN <<x>> \o sorted
    ELSE <<Head(sorted)>> \o Insert(x, Tail(sorted))

RECURSIVE Sorted(_)
Sorted(xs) == IF xs = <<>> THEN <<>> ELSE Insert(Head(xs), Sorted(Tail(xs)))

\* numpy.median of a non-empty sequence of numbers.
Median(xs) ==
    LET srt == Sorted(xs)
        n == Len(xs)
    IN  IF n % 2 = 1 THEN srt[(n + 1) \div 2]
        ELSE (srt[n \div 2] + srt[n \div 2 + 1]) \div 2

Abs(x) == IF x < 0 THEN 0 - x ELSE x

\* The method limits one lower.
MethodOfLower(n) == IF n <= 2 THEN "median" ELSE IF n <= 5 THEN "iqr" ELSE "modified_z"

\* The method calculate_consensus chooses for a sample of n values.
MethodOf(n) == IF n <= 3 THEN "median" ELSE IF n <= 6 THEN "iqr" ELSE "modified_z"

\* Four times numpy.percentile(xs, 25 * q), q in {1, 3}, with numpy's linear
\* interpolation between the two sorted values around index (n - 1) * q / 4.
Percentile4(xs, q) ==
    LET srt == Sorted(xs)
        pos == (Len(xs) - 1) * q
        lo == pos \div 4 + 1
        r == pos % 4
    IN  IF r = 0 THEN 4 * srt[lo] ELSE 4 * srt[lo] + r * (srt[lo + 1] - srt[lo])

\* The band with a factor of 3 for 1.5.
IqrInlierWide(xs, v) ==
    LET q1 == Percentile4(xs, 1)
        q3 == Percentile4(xs, 3)
    IN  /\ 8 * v >= 2 * q1 - 6 * (q3 - q1)
        /\ 8 * v <= 2 * q3 + 6 * (q3 - q1)

\* The IQR method's not_outlier for value v of the sample xs:
\* q1 - 1.5 * iqr <= v <= q3 + 1.5 * iqr, all times 8.
IqrInlier(xs, v) ==
    LET q1 == Percentile4(xs, 1)
        q3 == Percentile4(xs, 3)
    IN  /\ 8 * v >= 2 * q1 - 3 * (q3 - q1)
        /\ 8 * v <= 2 * q3 + 3 * (q3 - q1)

\* The median absolute deviation: np.median(np.abs(values_array - median)).
Mad(xs) == Median([i \in 1..Len(xs) |-> Abs(xs[i] - Median(xs))])

\* The test without abs().
ZInlierSigned(xs, v) == 1349 * (v - Median(xs)) < 7000 * Mad(xs)

\* The modified Z-score method's not_outlier for value v of the sample xs, when
\* mad > 0: abs(0.6745 * (v - median) / mad) < 3.5, and 0.6745 / 3.5 = 1349 / 7000.
ZInlier(xs, v) == 1349 * Abs(v - Median(xs)) < 7000 * Mad(xs)

\* values_array[not_outlier]: the inliers in the order of the sample.
Inliers(xs) ==
    IF MethodOf(Len(xs)) = "iqr" THEN SelectSeq(xs, LAMBDA v : IqrInlier(xs, v))
    ELSE SelectSeq(xs, LAMBDA v : ZInlier(xs, v))

\* calculate_consensus of a list of values, each a number or None: the empty
\* list gives 0.0, a single value is returned as it is (also None), and numpy
\* raises TypeError on a longer list that holds None. Up to three values give
\* their median; four to six the mean of the values inside the IQR band; more
\* the median when the MAD is 0, else the mean of the values whose modified
\* Z-score is below 3.5; and the median when no value is an inlier.
calculate_consensus(values) ==
    IF Len(values) = 0 THEN [val |-> Some(0), exc |-> ""]
    ELSE IF Len(values) = 1 THEN [val |-> values[1], exc |-> ""]
    ELSE IF \E i \in 1..Len(values) : ~values[i].some
         THEN [val |-> NoneVal, exc |-> "TypeError"]
    ELSE LET xs == [i \in 1..Len(values) |-> values[i].v]
             method == MethodOf(Len(xs))
         IN  [val |-> Some(IF method = "median" THEN Median(xs)
                           ELSE IF method = "modified_z" /\ Mad(xs) = 0 THEN Median(xs)
                           ELSE IF Inliers(xs) = << >> THEN Median(xs)
                           ELSE np_mean(Inliers(xs))),
              exc |-> ""]

\* ------------------------------------------------------------- led.py
Black == <<0, 0, 0>>
White == <<100, 100, 100>>
DimBlue == <<0, 0, 10>>
Leds == 0..(NumLeds - 1)

\* One pair (k, v) of config.items() as Led.__init__ treats it: whether k starts
\* with 'level_', the rest of k, and whether v is a section or a string
\* "r,g,b|threshold". A ConfigParser yields its sections, (section name,
\* SectionProxy); a plain mapping yields its values.
SectionItem(k) ==
    [level |-> FALSE, name |-> k, section |-> TRUE, th |-> 0, rgb |-> <<0, 0, 0>>]
LevelItem(name, th, rgb) ==
    [level |-> TRUE, name |-> name, section |-> FALSE, th |-> th, rgb |-> rgb]

\* config.items() of the ConfigParser that read_config_file returns.
ParserItems ==
    << SectionItem("DEFAULT"), SectionItem("generic"), SectionItem("sensors"),
       SectionItem("neopixel") >>

\* self.levels.sort(): by threshold.
RECURSIVE InsertLevel(_, _)
InsertLevel(l, sorted) ==
    IF sorted = << >> THEN << l >>
    ELSE IF l.th <= Head(sorted).th THEN << l >> \o sorted
    ELSE << Head(sorted) >> \o InsertLevel(l, Tail(sorted))

\* Led.__init__: self.levels of the items, and the AttributeError of v.strip()
\* for a section whose name starts with 'level_'.
RECURSIVE LoadLevels(_)
LoadLevels(items) ==
    IF items = << >> THEN [levels |-> << >>, exc |-> ""]
    ELSE LET it == items[Len(items)]
             r == LoadLevels(SubSeq(items, 1, Len(items) - 1))
         IN  IF r.exc # "" \/ ~it.level THEN r
             ELSE IF it.section THEN [levels |-> << >>, exc |-> "AttributeError"]
             ELSE [levels |-> InsertLevel([th |-> it.th, name |-> it.name, rgb |-> it.rgb],
                                          r.levels),
                   exc |-> ""]

\* The strip stores a colour scaled by its brightness, light_intensity (here in
\* percent), and truncated: int(c * brightness).
Adjusted(rgb) ==
    << (rgb[1] * LightIntensity) \div 100, (rgb[2] * LightIntensity) \div 100,
       (rgb[3] * LightIntensity) \div 100 >>

\* Led.off: fill((0, 0, 0)).
off(px) == [i \in Leds |-> Adjusted(Black)]

\* The colours set_rgb assigns, pixel by pixel, before the strip scales them.
Assigned(odd, half, rgb) ==
    [i \in Leds |-> IF i % 2 = 0 + odd \/ ~half THEN rgb ELSE Black]

\* set_rgb without the flip of the parity bit.
set_rgbNoFlip(px, odd, half, rgb) ==
    [pixels |-> [i \in Leds |-> Adjusted(Assigned(odd, half, rgb)[i])],
     do_odd |-> odd]

\* Led.set_rgb: the pixels and the parity bit afterwards.
set_rgb(px, odd, half, rgb) ==
    [pixels |-> [i \in Leds |-> Adjusted(Assigned(odd, half, rgb)[i])],
     do_odd |-> IF odd = 1 THEN 0 ELSE 1]

\* The first level whose threshold is aqi or above.
RECURSIVE FirstLevelOrAt(_, _, _)
FirstLevelOrAt(lv, aqi, k) ==
    IF k > Len(lv) THEN 0
    ELSE IF aqi <= lv[k].th * AqiUnit THEN k
    ELSE FirstLevelOrAt(lv, aqi, k + 1)

\* The index of the first level of lv whose threshold is above aqi, 0 when
\* none is.
RECURSIVE FirstLevel(_, _, _)
FirstLevel(lv, aqi, k) ==
    IF k > Len(lv) THEN 0
    ELSE IF aqi < lv[k].th * AqiUnit THEN k
    ELSE FirstLevel(lv, aqi, k + 1)

\* Led.set_light with the levels lv: comparing None with a threshold raises
\* TypeError.
set_light(px, odd, half, lv, aqi) ==
    IF ~aqi.some /\ Len(lv) > 0
    THEN [pixels |-> px, do_odd |-> odd, exc |-> "TypeError"]
    ELSE LET k == FirstLevel(lv, aqi.v, 1)
         IN  IF k = 0 THEN [pixels |-> px, do_odd |-> odd, exc |-> ""]
             ELSE [pixels |-> set_rgb(px, odd, half, lv[k].rgb).pixels,
                   do_odd |-> set_rgb(px, odd, half, lv[k].rgb).do_odd,
                   exc |-> ""]

\* One frame i of Led.working_light.
WorkingFrame(i) ==
    LET step_size == IF NumLeds \div 8 > 1 THEN NumLeds \div 8 ELSE 1
    IN  [idx \in Leds |-> IF idx % step_size = i % step_size THEN Adjusted(White)
                          ELSE Adjusted(DimBlue)]

\* working_light without its last statement.
WorkingEndNoOff(px) == px

\* The end of Led.working_light: self.off().
WorkingEnd(px) == off(px)

\* ------------------------------------------------------------- cli.py
\* is_time_between at time t: the hour of the day within start..end. A day of
\* the model is DayLen ticks long.
Hour(t) == t % DayLen

\* is_time_between with the end of the window left out.
is_time_betweenOpen(start, end, t) ==
    IF start < end THEN Hour(t) >= start /\ Hour(t) < end
    ELSE Hour(t) >= start \/ Hour(t) < end

is_time_between(start, end, t) ==
    IF start < end THEN Hour(t) >= start /\ Hour(t) <= end
    ELSE Hour(t) >= start \/ Hour(t) <= end

\* The active_time windows of the configurations checked: start-end hours.
ActiveWindows == { <<0, 1>> }

\* The capture time of a document that is older than the TTL at every time
\* of the model.
StaleTs == StartTime - SensorTtl - 1

\* What an endpoint can answer with at time t: a sensor document captured now
\* or captured longer ago than the TTL, JSON null, or another JSON object.
Answers(t) ==
    { DocPayload(ts, rd) : ts \in {StaleTs, t}, rd \in 1..NumReadings }
        \cup { NonePayload, OtherPayload }

\* The metrics of the poll loop, in the order their lists are built.
Metrics == << "aqi", "temperature", "humidity", "pressure" >>

VARIABLES
    now,        \* datetime.now(), in ticks
    data,       \* Sensor._data_dict of every sensor
    use_half,   \* Led.use_half
    levels,     \* Led.levels
    active,     \* (start_time, end_time)
    pixels,     \* the strip's pixels
    do_odd,     \* Led.__do_odd
    pc,         \* where main is
    animLoop,   \* working_light: the loop and the frame of the animation
    animFrame,
    task,       \* get_sensor_data: the fetch_json task of every sensor
    stale,      \* fetch_json tasks of an earlier cycle that are still pending
    metric,     \* the list being built: an index of Metrics
    idx,        \* the sensor the list comprehension is at
    sub,        \* the step of the list comprehension for that sensor
    curList,    \* the list built so far: the sensor and the value of each entry
    pm2_5_aqi,  \* main's pm2_5_aqi, from its consensus to set_light
    unhealthy,  \* main's counter of failed cycles
    exitReason, \* why main returned
    apiAlive,   \* the APIServer thread runs
    prev,       \* history: the slots when the cycle's fetch step began
    fetched,    \* history: the payload each sensor's fetch stored in this cycle,
                \* and whether no time has passed since
    consec,     \* history: the failed cycles since the last successful one
    lastRead,   \* history: what the read of this step reported
    lastExc,    \* history: the step and the exception the handler last caught
    call,       \* a function called on its own: its name and its argument
    result,     \* what that call returned
    trail       \* the strip after each of the last two calls of set_rgb

vars ==
    << now, data, use_half, levels, active, pixels, do_odd, pc, animLoop, animFrame, task,
       stale, metric, idx, sub, curList, pm2_5_aqi, unhealthy, exitReason, apiAlive,
       prev, fetched, consec, lastRead, lastExc, call, result, trail >>

mainVars ==
    << now, data, use_half, levels, active, pixels, do_odd, pc, animLoop, animFrame, task,
       stale, metric, idx, sub, curList, pm2_5_aqi, unhealthy, exitReason, apiAlive,
       prev, fetched, consec, lastRead, lastExc >>

ledVars == << pixels, do_odd >>
listVars == << metric, idx, sub, curList >>
fetchVars == << task, stale, prev, fetched >>
configVars == << use_half, levels, active >>
callVars == << call, result, trail >>

NoExc == [step |-> "", exc |-> ""]
NoCall == [fn |-> "", arg |-> << >>]
NonePrev == [s \in Sensors |-> NonePayload]
NoneFetched == [s \in Sensors |-> [some |-> FALSE, p |-> NonePayload, justNow |-> FALSE]]

AllOff == \A i \in Leds : pixels[i] = Black

\* main before its first cycle, the level table of its Led apart.
StartInit ==
    /\ now = StartTime
    /\ data = [s \in Sensors |-> NonePayload]
    /\ use_half \in BOOLEAN
    /\ active \in ActiveWindows
    /\ pixels = [i \in Leds |-> Black]
    /\ do_odd = 0
    /\ pc = "boot"
    /\ animLoop = 0
    /\ animFrame = 0
    /\ task = [s \in Sensors |-> "idle"]
    /\ stale = {}
    /\ metric = 0
    /\ idx = 0
    /\ sub = ""
    /\ curList = << >>
    /\ pm2_5_aqi = NoneVal
    /\ unhealthy = 0
    /\ exitReason = ""
    /\ apiAlive = FALSE
    /\ prev = NonePrev
    /\ fetched = NoneFetched
    /\ consec = 0
    /\ lastRead = NoRead
    /\ lastExc = NoExc

\* main has built its Led from the ConfigParser.
MainInit ==
    /\ StartInit
    /\ levels = LoadLevels(ParserItems).levels

\* No function has been called on its own.
CallInit ==
    /\ call = NoCall
    /\ result = NoneVal
    /\ trail = << >>

Init == MainInit /\ CallInit

\* Time passes.
Tick ==
    /\ pc # "exit"
    /\ now < MaxTime
    /\ now' = now + 1
    /\ fetched' = [s \in Sensors |-> [fetched[s] EXCEPT !.justNow = FALSE]]
    /\ lastRead' = NoRead
    /\ lastExc' = NoExc
    /\ UNCHANGED << data, configVars, callVars, ledVars, pc, animLoop, animFrame, task,
                    stale, prev, listVars, pm2_5_aqi, unhealthy, exitReason, apiAlive,
                    consec >>

\* ------------------------------------------------ working_light in main
\* working_light that runs no loop.
LoopsNone(loops) == 0

\* The loops of working_light(loops) that are told apart: every loop shows the
\* same frames, and the loops after the first MaxAnimLoops are folded into the
\* last one.
Loops(loops) == IF loops > MaxAnimLoops THEN MaxAnimLoops ELSE loops

\* One frame of the animation, at start-up (3 loops) or after a failed cycle
\* (20 loops).
AnimFrame ==
    /\ pc \in {"boot", "err_anim"}
    /\ animLoop < Loops(IF pc = "boot" THEN BootLoops ELSE ErrorLoops)
    /\ pixels' = WorkingFrame(animFrame)
    /\ IF animFrame + 1 < NumLeds
       THEN animFrame' = animFrame + 1 /\ animLoop' = animLoop
       ELSE animFrame' = 0 /\ animLoop' = animLoop + 1
    /\ lastRead' = NoRead
    /\ lastExc' = NoExc
    /\ UNCHANGED << now, data, configVars, callVars, do_odd, pc, fetchVars, listVars, pm2_5_aqi,
                    unhealthy, exitReason, apiAlive, consec >>

\* The end of working_light, and main goes on to the next cycle.
AnimEnd ==
    /\ pc \in {"boot", "err_anim"}
    /\ animLoop = Loops(IF pc = "boot" THEN BootLoops ELSE ErrorLoops)
    /\ pixels' = WorkingEnd(pixels)
    /\ pc' = "cycle"
    /\ animLoop' = 0
    /\ animFrame' = 0
    /\ lastRead' = NoRead
    /\ lastExc' = NoExc
    /\ UNCHANGED << now, data, configVars, callVars, do_odd, fetchVars, listVars, pm2_5_aqi,
                    unhealthy, exitReason, apiAlive, consec >>

\* ------------------------------------------------- the failure handler
\* The limit of main's "if unhealthy == 3".
AtLimit(u) == u = UnhealthyLimit

\* "except Exception": count the failure, leave at the limit, else show the
\* working light. Sets pc, unhealthy, exitReason, the animation, the list
\* variables and the two histories consec and lastExc.
HandleException(step, exc) ==
    /\ lastExc' = [step |-> step, exc |-> exc]
    /\ unhealthy' = unhealthy + 1
    /\ consec' = consec + 1
    /\ IF AtLimit(unhealthy + 1)
       THEN pc' = "exit" /\ exitReason' = "unhealthy"
       ELSE pc' = "err_anim" /\ exitReason' = exitReason
    /\ animLoop' = 0
    /\ animFrame' = 0
    /\ metric' = 0
    /\ idx' = 0
    /\ sub' = ""
    /\ curList' = << >>
    /\ prev' = NonePrev
    /\ fetched' = NoneFetched

\* The else clause without its reset.
ElseUnhealthyKept(u) == u

\* The try statement's else clause: what unhealthy becomes.
ElseUnhealthy(u) == 0

\* Main goes on without an exception: to place p of the list comprehension
\* (m, i, sb) with list l.
Goto(p, m, i, sb, l) ==
    /\ pc' = p
    /\ metric' = m
    /\ idx' = i
    /\ sub' = sb
    /\ curList' = l
    /\ lastExc' = NoExc
    /\ prev' = NonePrev
    /\ UNCHANGED << unhealthy, consec, exitReason, animLoop, animFrame, fetched >>

\* ------------------------------------ sensor_request.py: the fetch step
\* update_sensor_data runs the event loop: get_sensor_data starts one
\* fetch_json task per sensor. A task an earlier run left pending resumes on
\* its closed session and ends with an error.
UpdateSensorDataStart ==
    /\ pc = "cycle"
    /\ pc' = "gather"
    /\ task' = [s \in Sensors |-> "pending"]
    /\ stale' = {}
    /\ prev' = data
    /\ fetched' = NoneFetched
    /\ lastRead' = NoRead
    /\ lastExc' = NoExc
    /\ UNCHANGED << now, data, configVars, callVars, ledVars, animLoop, animFrame, listVars,
                    pm2_5_aqi, unhealthy, exitReason, apiAlive, consec >>

\* fetch_json of sensor s gets its response, and update_data stores it.
FetchJson(s) ==
    /\ pc = "gather"
    /\ task[s] = "pending"
    /\ \E payload \in Answers(now) :
          /\ data' = update_data(data, s, payload)
          /\ fetched' = [fetched EXCEPT ![s] = [some |-> TRUE, p |-> payload, justNow |-> TRUE]]
    /\ task' = [task EXCEPT ![s] = "done"]
    /\ lastRead' = NoRead
    /\ lastExc' = NoExc
    /\ UNCHANGED << now, configVars, callVars, ledVars, pc, animLoop, animFrame, stale, prev,
                    listVars, pm2_5_aqi, unhealthy, exitReason, apiAlive,
                    consec >>

\* A failed fetch that drops the sensor's payload.
FailedFetchClears(d, s) == [d EXCEPT ![s] = NonePayload]

\* What a fetch_json that raised leaves of the slots: session.get raised, and
\* update_data was not called.
FailedFetch(d, s) == d

\* fetch_json of sensor s fails in the transport.
FetchTransportError(s) ==
    /\ pc = "gather"
    /\ task[s] = "pending"
    /\ data' = FailedFetch(data, s)
    /\ task' = [task EXCEPT ![s] = "failed"]
    /\ lastRead' = NoRead
    /\ lastExc' = NoExc
    /\ UNCHANGED << now, configVars, callVars, ledVars, pc, animLoop, animFrame, stale, prev,
                    fetched, listVars, pm2_5_aqi, unhealthy, exitReason, apiAlive, consec >>

\* The response text of sensor s is no JSON: json.loads raises in update_data
\* before the slot is assigned.
FetchBadText(s) ==
    /\ pc = "gather"
    /\ task[s] = "pending"
    /\ task' = [task EXCEPT ![s] = "failed"]
    /\ lastRead' = NoRead
    /\ lastExc' = NoExc
    /\ UNCHANGED << now, data, configVars, callVars, ledVars, pc, animLoop, animFrame, stale,
                    prev, fetched, listVars, pm2_5_aqi, unhealthy, exitReason,
                    apiAlive, consec >>

\* asyncio.gather returns when every task is done.
GatherReturn ==
    /\ pc = "gather"
    /\ \A s \in Sensors : task[s] = "done"
    /\ task' = [s \in Sensors |-> "idle"]
    /\ Goto("str", 0, 1, "", << >>)
    /\ lastRead' = NoRead
    /\ UNCHANGED << now, data, configVars, callVars, ledVars, stale, pm2_5_aqi, apiAlive >>

\* asyncio.gather (return_exceptions=False) raises the first exception of a
\* task at once; the tasks still pending are not cancelled and not awaited.
GatherRaise ==
    /\ pc = "gather"
    /\ \E s \in Sensors : task[s] = "failed"
    /\ stale' = { s \in Sensors : task[s] = "pending" }
    /\ task' = [s \in Sensors |-> "idle"]
    /\ HandleException("fetch", "ClientError")
    /\ lastRead' = NoRead
    /\ UNCHANGED << now, data, configVars, callVars, ledVars, pm2_5_aqi, apiAlive >>

\* ------------------------------------------------ main: the aggregation
\* log.debug(f'Sensors: {sensor}') formats sensor idx.
StrStep ==
    /\ pc = "str"
    /\ LET r == SensorStr(idx, data[idx], now)
       IN  /\ data' = [data EXCEPT ![idx] = r.after]
           /\ lastRead' = r
           /\ IF r.exc # "" THEN HandleException("aggregate", r.exc)
              ELSE IF idx < NumSensors THEN Goto("str", 0, idx + 1, "", << >>)
              ELSE Goto("list", 1, 1, "cond", << >>)
    /\ UNCHANGED << now, configVars, callVars, ledVars, task, stale, pm2_5_aqi, apiAlive >>

\* The accessor of metric m (2..4).
MetricRead(m, slot, t) ==
    CASE m = 2 -> temperature(slot, t)
      [] m = 3 -> humidity(slot, t)
      [] OTHER -> pressure(slot, t)

\* The filter of the list comprehension, "if s.<metric> is not None", for
\* sensor idx; for the AQI this is the first half of us_epa_pm2_5_aqi.
ListCond ==
    /\ pc = "list"
    /\ idx \in Sensors
    /\ sub = "cond"
    /\ LET r == IF metric = 1 THEN aqi_check(data[idx], now)
                ELSE MetricRead(metric, data[idx], now)
       IN  /\ data' = [data EXCEPT ![idx] = r.slot]
           /\ lastRead' = ReadOf(IF metric = 1 THEN "aqi_check" ELSE Metrics[metric],
                                 idx, data[idx], r)
           /\ IF r.exc # "" THEN HandleException("aggregate", r.exc)
              ELSE IF ~r.val.some THEN Goto("list", metric, idx + 1, "cond", curList)
              ELSE IF metric = 1 THEN Goto("list", metric, idx, "cond2", curList)
              ELSE Goto("list", metric, idx, "val", curList)
    /\ UNCHANGED << now, configVars, callVars, ledVars, task, stale, pm2_5_aqi, apiAlive >>

\* The filter for the AQI, second half of us_epa_pm2_5_aqi.
ListCond2 ==
    /\ pc = "list"
    /\ sub = "cond2"
    /\ LET r == aqi_value(data[idx], now)
       IN  /\ data' = [data EXCEPT ![idx] = r.slot]
           /\ lastRead' = ReadOf("aqi_value", idx, data[idx], r)
           /\ IF r.exc # "" THEN HandleException("aggregate", r.exc)
              ELSE Goto("list", metric, idx, "val", curList)
    /\ UNCHANGED << now, configVars, callVars, ledVars, task, stale, pm2_5_aqi, apiAlive >>

\* The value of the list comprehension, "s.<metric>", a second call of the
\* accessor; for the AQI this is the first half of us_epa_pm2_5_aqi, which
\* returns None when the test finds none.
ListVal ==
    /\ pc = "list"
    /\ sub = "val"
    /\ LET r == IF metric = 1 THEN aqi_check(data[idx], now)
                ELSE MetricRead(metric, data[idx], now)
       IN  /\ data' = [data EXCEPT ![idx] = r.slot]
           /\ lastRead' = ReadOf(IF metric = 1 THEN "aqi_check" ELSE Metrics[metric],
                                 idx, data[idx], r)
           /\ IF r.exc # "" THEN HandleException("aggregate", r.exc)
              ELSE IF metric = 1 /\ r.val.some THEN Goto("list", metric, idx, "val2", curList)
              ELSE Goto("list", metric, idx + 1, "cond",
                        Append(curList, [s |-> idx, val |-> r.val]))
    /\ UNCHANGED << now, configVars, callVars, ledVars, task, stale, pm2_5_aqi, apiAlive >>

\* The value for the AQI, second half of us_epa_pm2_5_aqi.
ListVal2 ==
    /\ pc = "list"
    /\ sub = "val2"
    /\ LET r == aqi_value(data[idx], now)
       IN  /\ data' = [data EXCEPT ![idx] = r.slot]
           /\ lastRead' = ReadOf("aqi_value", idx, data[idx], r)
           /\ IF r.exc # "" THEN HandleException("aggregate", r.exc)
              ELSE Goto("list", metric, idx + 1, "cond",
                        Append(curList, [s |-> idx, val |-> r.val]))
    /\ UNCHANGED << now, configVars, callVars, ledVars, task, stale, pm2_5_aqi, apiAlive >>

\* The values of the list that is passed to calculate_consensus.
ListValues == [i \in 1..Len(curList) |-> curList[i].val]

\* calculate_consensus of the finished list; the AQI goes to pm2_5_aqi.
Consensus ==
    /\ pc = "list"
    /\ idx = NumSensors + 1
    /\ LET r == calculate_consensus(ListValues)
       IN  /\ pm2_5_aqi' = IF r.exc # "" THEN NoneVal
                            ELSE IF metric = 1 THEN r.val ELSE pm2_5_aqi
           /\ IF r.exc # "" THEN HandleException("aggregate", r.exc)
              ELSE IF metric < Len(Metrics) THEN Goto("list", metric + 1, 1, "cond", << >>)
              ELSE Goto("render", 0, 0, "", << >>)
    /\ lastRead' = NoRead
    /\ UNCHANGED << now, data, configVars, callVars, ledVars, task, stale, apiAlive >>

\* ---------------------------------------------------- main: rendering
\* set_light inside the active window, off outside it; then the API server
\* thread is started if it does not run.
Render ==
    /\ pc = "render"
    /\ LET r == IF is_time_between(active[1], active[2], now)
                THEN set_light(pixels, do_odd, use_half, levels, pm2_5_aqi)
                ELSE [pixels |-> off(pixels), do_odd |-> do_odd, exc |-> ""]
       IN  /\ pixels' = r.pixels
           /\ do_odd' = r.do_odd
           /\ IF r.exc # ""
              THEN HandleException("render", r.exc) /\ UNCHANGED apiAlive
              ELSE Goto("sleep", 0, 0, "", << >>) /\ apiAlive' = TRUE
    /\ lastRead' = NoRead
    /\ pm2_5_aqi' = NoneVal
    /\ UNCHANGED << now, data, configVars, callVars, task, stale >>

\* sleep(update_frequency) returns and the else clause of the try runs.
SleepDone ==
    /\ pc = "sleep"
    /\ pc' = "cycle"
    /\ unhealthy' = ElseUnhealthy(unhealthy)
    /\ consec' = 0
    /\ prev' = NonePrev
    /\ fetched' = NoneFetched
    /\ lastRead' = NoRead
    /\ lastExc' = NoExc
    /\ UNCHANGED << now, data, configVars, callVars, ledVars, animLoop, animFrame, task, stale,
                    listVars, pm2_5_aqi, exitReason, apiAlive >>

\* ------------------------------------------------- KeyboardInterrupt
TryBody == {"cycle", "gather", "str", "list", "render", "sleep"}

\* main returns: its tasks, its lists and the daemon thread end with it; the
\* strip keeps what it shows.
MainReturns(reason) ==
    /\ pc' = "exit"
    /\ exitReason' = reason
    /\ task' = [s \in Sensors |-> "idle"]
    /\ stale' = {}
    /\ prev' = NonePrev
    /\ fetched' = NoneFetched
    /\ metric' = 0
    /\ idx' = 0
    /\ sub' = ""
    /\ curList' = << >>
    /\ pm2_5_aqi' = NoneVal
    /\ animLoop' = 0
    /\ animFrame' = 0
    /\ apiAlive' = FALSE
    /\ lastRead' = NoRead
    /\ lastExc' = NoExc

\* Inside the try statement: "except KeyboardInterrupt" turns the strip off.
InterruptInTry ==
    /\ pc \in TryBody
    /\ pixels' = off(pixels)
    /\ MainReturns("interrupt")
    /\ UNCHANGED << now, data, configVars, callVars, do_odd, unhealthy, consec >>

\* In working_light, at start-up or in the handler of a failed cycle: no
\* except clause is in force, and main ends with the KeyboardInterrupt.
InterruptInAnim ==
    /\ pc \in {"boot", "err_anim"}
    /\ MainReturns("interrupt")
    /\ UNCHANGED << now, data, configVars, callVars, ledVars, unhealthy, consec >>

\* ------------------------------------------- the status server thread
\* get_all_sensors calls data2dict of sensor s for its answer. The thread
\* serves any number of requests, so the calls come for any sensor at any time.
ApiData2Dict(s) ==
    /\ apiAlive
    /\ pc # "exit"
    /\ LET r == data2dict(s, data[s], now)
       IN  /\ data' = [data EXCEPT ![s] = r.after]
           /\ lastRead' = r
    /\ lastExc' = NoExc
    /\ UNCHANGED << now, configVars, callVars, ledVars, pc, animLoop, animFrame, fetchVars,
                    listVars, pm2_5_aqi, unhealthy, exitReason, apiAlive, consec >>

Next ==
    \/ Tick
    \/ AnimFrame
    \/ AnimEnd
    \/ UpdateSensorDataStart
    \/ \E s \in Sensors : FetchJson(s)
    \/ \E s \in Sensors : FetchTransportError(s)
    \/ \E s \in Sensors : FetchBadText(s)
    \/ GatherReturn
    \/ GatherRaise
    \/ StrStep
    \/ ListCond
    \/ ListCond2
    \/ ListVal
    \/ ListVal2
    \/ Consensus
    \/ Render
    \/ SleepDone
    \/ InterruptInTry
    \/ InterruptInAnim
    \/ \E s \in Sensors : ApiData2Dict(s)

Spec == Init /\ [][Next]_vars

\* ------------------------------------- calculate_consensus on its own
\* The samples: every list of up to MaxValues of the sample values, the two
\* lists [10, 10, 10, 100] and [50, 51, 49, 50, 52, 48, 400], and lists of equal
\* values.
SampleValues == { 10, 50, 51, 400 }

Floats(xs) == [i \in 1..Len(xs) |-> xs[i] * FloatUnit]

\* Four to six sensors with the same value, a float from 1.0 to 2.0.
EqualSamples ==
    { [i \in 1..n |-> v] : n \in 4..6, v \in FloatUnit..(2 * FloatUnit) }

ConsensusSamples ==
    { Floats(xs) : xs \in UNION { [1..n -> SampleValues] : n \in 0..MaxValues } }
        \cup { Floats(<< 10, 10, 10, 100 >>), Floats(<< 50, 51, 49, 50, 52, 48, 400 >>) }
        \cup EqualSamples

\* The list of floats as Python values.
Somes(xs) == [i \in 1..Len(xs) |-> Some(xs[i])]

\* The call of calculate_consensus returns.
ApplyConsensus ==
    /\ call.fn = "calculate_consensus"
    /\ result = NoneVal
    /\ result' = calculate_consensus(Somes(call.arg)).val
    /\ UNCHANGED << mainVars, call, trail >>

\* calculate_consensus is called with one of the samples.
ConsensusInit ==
    /\ MainInit
    /\ ~use_half
    /\ call \in { [fn |-> "calculate_consensus", arg |-> xs] : xs \in ConsensusSamples }
    /\ result = NoneVal
    /\ trail = << >>

ConsensusSpec == ConsensusInit /\ [][ApplyConsensus]_vars

\* --------------------------------------------- calculate_aqi on its own
\* The concentrations, in tenths: from -2.0 to MaxPm / 10.
PmSamples == (0 - 20)..MaxPm

\* The call of calculate_aqi returns.
ApplyAqi ==
    /\ call.fn = "calculate_aqi"
    /\ result = NoneVal
    /\ result' = Some(calculate_aqi(call.arg[1]))
    /\ UNCHANGED << mainVars, call, trail >>

\* calculate_aqi is called with one of the concentrations.
AqiInit ==
    /\ MainInit
    /\ ~use_half
    /\ call \in { [fn |-> "calculate_aqi", arg |-> << pm >>] : pm \in PmSamples }
    /\ result = NoneVal
    /\ trail = << >>

AqiSpec == AqiInit /\ [][ApplyAqi]_vars

\* ------------------------------------------------- the Led on its own
Green == <<0, 255, 0>>
Yellow == <<255, 255, 0>>
Red == <<255, 0, 0>>

\* config.items() of the configurations a Led is built from: the ConfigParser
\* of main, and mappings whose 'level_' entries are strings.
LedConfigs ==
    { ParserItems,
      << SectionItem("neopixel") >>,
      << LevelItem("good", 50, Green) >>,
      << SectionItem("neopixel"), LevelItem("moderate", 100, Yellow),
         LevelItem("good", 50, Green) >>,
      << LevelItem("unhealthy", 150, Red), LevelItem("good", 50, Green),
         LevelItem("moderate", 100, Yellow) >> }

\* The values set_light is called with.
LightSamples ==
    { 0 - AqiUnit, 0, 50 * AqiUnit - 1, 50 * AqiUnit, 100 * AqiUnit - 1, 100 * AqiUnit,
      433 * AqiUnit }

\* The last two calls of set_rgb: what each assigned, and the calls of the Led
\* that came after it.
Rendered(tr, odd, half, rgb) ==
    (IF tr = << >> THEN << >> ELSE << tr[Len(tr)] >>)
        \o << [px |-> Assigned(odd, half, rgb), rgb |-> rgb, then |-> {}] >>
Followed(tr, fn) ==
    IF tr = << >> THEN tr ELSE [tr EXCEPT ![Len(tr)].then = @ \cup {fn}]

\* led.set_light(aqi).
LedSetLight(aqi) ==
    /\ LET r == set_light(pixels, do_odd, use_half, levels, Some(aqi))
           k == FirstLevel(levels, aqi, 1)
       IN  /\ pixels' = r.pixels
           /\ do_odd' = r.do_odd
           /\ trail' = IF k = 0 THEN Followed(trail, "set_light")
                       ELSE Rendered(trail, do_odd, use_half, levels[k].rgb)
    /\ call' = [fn |-> "set_light", arg |-> << aqi >>]
    /\ UNCHANGED << now, data, configVars, pc, animLoop, animFrame, fetchVars, listVars,
                    pm2_5_aqi, unhealthy, exitReason, apiAlive, consec, lastRead,
                    lastExc, result >>

\* led.off().
LedOff ==
    /\ pixels' = off(pixels)
    /\ trail' = Followed(trail, "off")
    /\ call' = [fn |-> "off", arg |-> << >>]
    /\ UNCHANGED << now, data, configVars, do_odd, pc, animLoop, animFrame, fetchVars,
                    listVars, pm2_5_aqi, unhealthy, exitReason, apiAlive, consec,
                    lastRead, lastExc, result >>

\* led.working_light(loops), from its first frame to its off().
LedWorkingLight ==
    /\ pixels' = WorkingEnd(WorkingFrame(NumLeds - 1))
    /\ trail' = Followed(trail, "working_light")
    /\ call' = [fn |-> "working_light", arg |-> << >>]
    /\ UNCHANGED << now, data, configVars, do_odd, pc, animLoop, animFrame, fetchVars,
                    listVars, pm2_5_aqi, unhealthy, exitReason, apiAlive, consec,
                    lastRead, lastExc, result >>

\* A Led after its construction.
LedInit ==
    /\ StartInit
    /\ levels \in { LoadLevels(items).levels : items \in LedConfigs }
    /\ CallInit

LedNext ==
    \/ \E aqi \in LightSamples : LedSetLight(aqi)
    \/ LedOff
    \/ LedWorkingLight

LedSpec == LedInit /\ [][LedNext]_vars

\* ------------------------------ main: one cycle from its lists to the strip
\* Three sensors, and the readings their payloads hold: PM2.5 of 10, 400, 12.
CycleSensors == 1..3
CycleReadings == 1..3

\* The active_time windows: within the day, across midnight, start = end.
CycleWindows == { <<0, 1>>, <<1, 2>>, <<2, 0>>, <<2, 1>>, <<1, 1>> }

\* The list of the AQIs of the sensors that have one, read at time t.
AqiList(d, t) ==
    LET vals == [s \in DOMAIN d |-> us_epa_pm2_5_aqi(d[s], t).val]
    IN  SelectSeq(vals, LAMBDA v : v.some)

\* The AQI list and its consensus, and the other three consensus values, for
\* sensors whose payloads are fresh: no accessor changes a slot or raises.
Aggregate ==
    /\ pc = "list"
    /\ LET list == AqiList(data, now)
           r == calculate_consensus(list)
       IN  /\ call' = [fn |-> "calculate_consensus", arg |-> [i \in 1..Len(list) |-> list[i].v]]
           /\ result' = r.val
           /\ pm2_5_aqi' = r.val
    /\ Goto("render", 0, 0, "", << >>)
    /\ lastRead' = NoRead
    /\ UNCHANGED << now, data, configVars, ledVars, task, stale, apiAlive, trail >>

\* The cycle is at its lists: every sensor holds the payload its fetch stored
\* just now, and the strip shows what an earlier cycle left.
CycleInit ==
    /\ now \in StartTime..MaxTime
    /\ data \in [CycleSensors -> { DocPayload(now, rd) : rd \in CycleReadings }]
    /\ use_half \in BOOLEAN
    /\ levels \in { LoadLevels(items).levels : items \in LedConfigs }
    /\ active \in CycleWindows
    /\ pixels \in { [i \in Leds |-> Black], [i \in Leds |-> Adjusted(Red)] }
    /\ do_odd \in {0, 1}
    /\ pc = "list"
    /\ animLoop = 0
    /\ animFrame = 0
    /\ task = [s \in CycleSensors |-> "idle"]
    /\ stale = {}
    /\ metric = 1
    /\ idx = 1
    /\ sub = "cond"
    /\ curList = << >>
    /\ pm2_5_aqi = NoneVal
    /\ unhealthy = 0
    /\ exitReason = ""
    /\ apiAlive \in BOOLEAN
    /\ prev = NonePrev
    /\ fetched = NoneFetched
    /\ consec = 0
    /\ lastRead = NoRead
    /\ lastExc = NoExc
    /\ CallInit

CycleNext ==
    \/ Aggregate
    \/ Render

CycleSpec == CycleInit /\ [][CycleNext]_vars

\* ------------------------------- the slot and the threads that write it
\* The status thread in Sensor._ttl_expired for sensor s, called by an accessor
\* of data2dict: it has read the time stamp and found the TTL over, and has not
\* yet assigned None. The poll thread may run before it does.
TtlExpiredCheck(s) ==
    /\ apiAlive
    /\ call = NoCall
    /\ data_time_stamp(data[s]).exc = ""
    /\ TtlOver(now, data_time_stamp(data[s]).v)
    /\ call' = [fn |-> "_ttl_expired", arg |-> << s >>]
    /\ UNCHANGED << mainVars, result, trail >>

\* The status thread assigns self._data_dict = None.
TtlExpiredStore ==
    /\ call.fn = "_ttl_expired"
    /\ data' = [data EXCEPT ![call.arg[1]] = NonePayload]
    /\ call' = NoCall
    /\ UNCHANGED << now, configVars, ledVars, pc, animLoop, animFrame, fetchVars, listVars,
                    pm2_5_aqi, unhealthy, exitReason, apiAlive, consec, lastRead,
                    lastExc, result, trail >>

\* The fetch step of a cycle is under way and the status thread runs; every
\* slot is empty or holds a payload of an earlier cycle that is older than the
\* TTL.
SlotInit ==
    /\ now = StartTime
    /\ data \in [Sensors -> { NonePayload, DocPayload(StaleTs, 1) }]
    /\ use_half = FALSE
    /\ levels = LoadLevels(ParserItems).levels
    /\ active \in ActiveWindows
    /\ pixels = [i \in Leds |-> Black]
    /\ do_odd = 0
    /\ pc = "gather"
    /\ animLoop = 0
    /\ animFrame = 0
    /\ task = [s \in Sensors |-> "pending"]
    /\ stale = {}
    /\ metric = 0
    /\ idx = 0
    /\ sub = ""
    /\ curList = << >>
    /\ pm2_5_aqi = NoneVal
    /\ unhealthy = 0
    /\ exitReason = ""
    /\ apiAlive = TRUE
    /\ prev = data
    /\ fetched = NoneFetched
    /\ consec = 0
    /\ lastRead = NoRead
    /\ lastExc = NoExc
    /\ CallInit

SlotNext ==
    \/ Tick
    \/ \E s \in Sensors : FetchJson(s)
    \/ \E s \in Sensors : TtlExpiredCheck(s)
    \/ TtlExpiredStore

SlotSpec == SlotInit /\ [][SlotNext]_vars

\* ============================================================ claims
InCycle == pc \in {"gather", "str", "list", "render", "sleep"}

\* The payload was a sensor document older than the TTL when it was read.
ReadExpired ==
    /\ lastRead.op # ""
    /\ lastRead.before.kind = "doc"
    /\ now - lastRead.before.ts > SensorTtl

\* C1: a read of a payload older than the TTL reports the reading as absent:
\* every value it returns is None or the no-data default (the epoch, the
\* location (0, 0, 0)), never a value of the expired payload.
C1_ExpiredReadsAbsent ==
    ReadExpired =>
        /\ lastRead.ts = Epoch
        /\ lastRead.loc = Some(0)
        /\ lastRead.pm = NoneVal
        /\ lastRead.aqi = NoneVal
        /\ lastRead.temp = NoneVal
        /\ lastRead.hum = NoneVal
        /\ lastRead.pres = NoneVal

\* A read of all the metrics (Sensor.__str__, Sensor.data2dict) of a sensor at
\* the very time its fetch of this cycle stored a payload.
ReadAtUpdate ==
    /\ lastRead.op \in {"__str__", "data2dict"}
    /\ fetched[lastRead.s].some
    /\ fetched[lastRead.s].justNow

\* The read returned the metrics derived from payload p, none of them None.
ReadsMetricsOf(p) ==
    /\ lastRead.exc = ""
    /\ lastRead.aqi = Some(calculate_aqi(FieldPm(p.rd)))
    /\ lastRead.temp = Some((FieldTemperature(p.rd) - 32) * 10)
    /\ lastRead.hum = Some(FieldHumidity(p.rd) * 2)
    /\ lastRead.pres = Some(FieldPressure(p.rd) * 2)
    /\ lastRead.op = "data2dict" => lastRead.pm = Some(FieldPm(p.rd))

\* C2 as stated: whatever payload update_data accepted, the metrics read with
\* no time elapsed are the ones derived from it, and never None.
C2_RoundTripAnyPayload ==
    ReadAtUpdate => ReadsMetricsOf(fetched[lastRead.s].p)

\* The read raised nothing and returned None for every metric.
ReadsNoMetrics ==
    /\ lastRead.exc = ""
    /\ lastRead.pm = NoneVal
    /\ lastRead.aqi = NoneVal
    /\ lastRead.temp = NoneVal
    /\ lastRead.hum = NoneVal
    /\ lastRead.pres = NoneVal

\* C2 amended: the round trip holds for a sensor document whose
\* data_time_stamp is not older than the TTL at the time of the update; for an
\* older sensor document and for JSON null every metric read is None.
C2_RoundTripFreshDocument ==
    ReadAtUpdate =>
        LET p == fetched[lastRead.s].p
        IN  /\ (p.kind = "doc" /\ now - p.ts <= SensorTtl) => ReadsMetricsOf(p)
            /\ (p.kind = "doc" /\ now - p.ts > SensorTtl) => ReadsNoMetrics
            /\ p.kind = "none" => ReadsNoMetrics

C2_Witness ==
    /\ ReadAtUpdate
    /\ lastRead.op = "__str__"
    /\ fetched[lastRead.s].p.kind = "doc"
    /\ now - fetched[lastRead.s].p.ts <= SensorTtl
    /\ lastRead.aqi.some

\* C3: main returns because of failures exactly when three cycles in a row have
\* failed: it has returned for that reason only with three failed cycles since
\* the last successful one, three such failures always end it, and after a
\* successful cycle its counter is 0 again.
C3_ThreeConsecutiveFailures ==
    /\ exitReason = "unhealthy" => consec = 3
    /\ consec >= 3 => (pc = "exit" /\ exitReason = "unhealthy")
    /\ (pc # "exit" /\ consec = 0) => unhealthy = 0

C3_Witness ==
    /\ pc = "exit"
    /\ exitReason = "unhealthy"
    /\ lastExc.step = "fetch"

\* C4: when main returns because of the third failing cycle in a row, every
\* pixel is off, whichever step raised.
C4_OffAtUnhealthyExit ==
    exitReason = "unhealthy" => AllOff

C4_Witness ==
    /\ exitReason = "unhealthy"
    /\ lastExc.step \in {"aggregate", "render"}
    /\ AllOff

\* C5: a KeyboardInterrupt at any point of the run leaves the strip off when
\* main has returned.
C5_InterruptTurnsOff ==
    exitReason = "interrupt" => AllOff

C7_OnlyFetchRaises ==
    lastExc.step \in {"", "fetch"}

\* C8: once the fetch step of a cycle has returned, normally or with an error,
\* no fetch of that cycle is still pending.
C8_NoFetchPendingAfterFetchStep ==
    pc # "gather" => (stale = {} /\ \A s \in Sensors : task[s] # "pending")

\* The payload that sensor s should hold in this cycle: the one its fetch
\* stored, or the one it had when the cycle began.
Expected(s) == IF fetched[s].some THEN fetched[s].p ELSE prev[s]

C10_ListHoldsNumbers ==
    (pc = "list" /\ idx = NumSensors + 1) =>
        /\ \A i \in 1..Len(curList) : curList[i].val.some
        /\ \A i, j \in 1..Len(curList) : curList[i].s = curList[j].s => i = j

\* The list that calculate_consensus was called with, and what it returned.
ConsensusReturned == call.fn = "calculate_consensus" /\ result # NoneVal

ConsensusOf(n) == ConsensusReturned /\ Len(call.arg) = n

\* C11: up to three values get no outlier rejection: the empty list gives 0.0,
\* a single value gives that value, two values give their average, and three
\* values give the middle one of the sorted list.
C11_SmallSampleMedian ==
    /\ ConsensusOf(0) => result = Some(0)
    /\ ConsensusOf(1) => result = Some(call.arg[1])
    /\ ConsensusOf(2) => (result.some /\ 2 * result.v = call.arg[1] + call.arg[2])
    /\ ConsensusOf(3) =>
          /\ result.some
          /\ \E i \in 1..3 : call.arg[i] = result.v
          /\ Cardinality({ i \in 1..3 : call.arg[i] <= result.v }) >= 2
          /\ Cardinality({ i \in 1..3 : call.arg[i] >= result.v }) >= 2

C11_Witness ==
    /\ ConsensusOf(3)
    /\ result = Some(50 * FloatUnit)
    /\ \E i \in 1..3 : call.arg[i] = 400 * FloatUnit
    /\ \E i \in 1..3 : call.arg[i] = 10 * FloatUnit

\* Four times the first and the third quartile of a sample of four to six
\* values, from the sorted sample.
Quartile1x4(xs) ==
    LET srt == Sorted(xs)
    IN  CASE Len(xs) = 4 -> 4 * srt[1] + 3 * (srt[2] - srt[1])
          [] Len(xs) = 5 -> 4 * srt[2]
          [] OTHER -> 4 * srt[2] + (srt[3] - srt[2])

Quartile3x4(xs) ==
    LET srt == Sorted(xs)
    IN  CASE Len(xs) = 4 -> 4 * srt[3] + (srt[4] - srt[3])
          [] Len(xs) = 5 -> 4 * srt[4]
          [] OTHER -> 4 * srt[4] + 3 * (srt[5] - srt[4])

\* Q1 - 1.5 * IQR <= v <= Q3 + 1.5 * IQR.
InIqrBand(xs, v) ==
    LET iqr4 == Quartile3x4(xs) - Quartile1x4(xs)
    IN  /\ 8 * v >= 2 * Quartile1x4(xs) - 3 * iqr4
        /\ 8 * v <= 2 * Quartile3x4(xs) + 3 * iqr4

InZBand(xs, v) ==
    LET m == Median(xs)
        d == Median([i \in 1..Len(xs) |-> Abs(xs[i] - m)])
    IN  6745 * Abs(v - m) < 35000 * d

Swapped(xs, i) == [xs EXCEPT ![i] = xs[i + 1], ![i + 1] = xs[i]]

\* C14: the result does not depend on the order of the list: exchanging two
\* neighbours of the list, and so every permutation, gives an equal result.
C14_OrderIndependent ==
    ConsensusReturned =>
        \A i \in 1..(Len(call.arg) - 1) :
            calculate_consensus(Somes(Swapped(call.arg, i))).val = result

\* The levels whose threshold is strictly greater than aqi.
Above(aqi) == { k \in 1..Len(levels) : levels[k].th * AqiUnit > aqi }

\* The level of Above(aqi) with the lowest threshold.
Lowest(aqi) == CHOOSE k \in Above(aqi) : \A j \in Above(aqi) : levels[k].th <= levels[j].th

\* The strip shows rgb on the pixels of parity odd, or on all of them without
\* half-mode, and black on the others.
Shows(px, odd, rgb) ==
    \A i \in Leds : px[i] = IF i % 2 = odd \/ ~use_half THEN Adjusted(rgb)
                             ELSE Adjusted(Black)

\* C15: set_light(aqi) renders the colour of the level with the lowest
\* threshold strictly greater than aqi, and this is the first such level of the
\* table; when no threshold is greater than aqi the pixels, the parity bit and
\* the record of the set_rgb calls stay as they are.
C15_FirstLevelAbove ==
    [][call'.fn = "set_light" =>
          LET aqi == call'.arg[1]
          IN  IF Above(aqi) = {}
              THEN pixels' = pixels /\ do_odd' = do_odd
                   /\ (trail # << >> => trail'[Len(trail')].px = trail[Len(trail)].px)
                   /\ Len(trail') = Len(trail)
              ELSE /\ \A j \in 1..(Lowest(aqi) - 1) : j \notin Above(aqi)
                   /\ Shows(pixels', do_odd, levels[Lowest(aqi)].rgb)
                   /\ do_odd' # do_odd
                   /\ trail'[Len(trail')].rgb = levels[Lowest(aqi)].rgb]_vars

\* C15 witness: set_light was called with an aqi equal to the threshold of the
\* first of three levels, and the strip shows the colour of the second level.
C15_Witness ==
    /\ call = [fn |-> "set_light", arg |-> << 50 * AqiUnit >>]
    /\ Len(levels) = 3
    /\ levels[1].th = 50
    /\ \E i \in Leds : pixels[i] = Adjusted(Yellow)

\* The pixels a call of set_rgb lit.
Lit(e) == { i \in Leds : e.px[i] # Black }

\* C16: without half-mode every call of set_rgb assigns rgb to every pixel;
\* with half-mode a call assigns rgb to the pixels of one parity and black to
\* the others, and two consecutive calls light complementary parities, whatever
\* other calls of the Led were made between them.
C16_ComplementaryParities ==
    /\ \A n \in 1..Len(trail) :
          IF ~use_half THEN \A i \in Leds : trail[n].px[i] = trail[n].rgb
          ELSE \E par \in {0, 1} :
                  \A i \in Leds : trail[n].px[i] = IF i % 2 = par THEN trail[n].rgb ELSE Black
    /\ (use_half /\ Len(trail) = 2) =>
          /\ Lit(trail[1]) \cap Lit(trail[2]) = {}
          /\ Lit(trail[1]) \cup Lit(trail[2]) = Leds

\* C16 witness: half-mode, two calls of set_rgb with off(), working_light()
\* and a set_light that matched no level between them.
C16_Witness ==
    /\ use_half
    /\ Len(trail) = 2
    /\ trail[1].then = {"off", "working_light", "set_light"}
    /\ call.fn = "set_light"
    /\ trail[2].then = {}
    /\ \E i \in Leds : pixels[i] # Black

\* The breakpoint bands: concentrations in tenths, index bounds.
Bands ==
    << [low1 |-> 0, high1 |-> 120, low2 |-> 0, high2 |-> 50],
       [low1 |-> 120, high1 |-> 355, low2 |-> 50, high2 |-> 100],
       [low1 |-> 355, high1 |-> 555, low2 |-> 100, high2 |-> 150],
       [low1 |-> 555, high1 |-> 1505, low2 |-> 150, high2 |-> 200],
       [low1 |-> 1505, high1 |-> 2505, low2 |-> 200, high2 |-> 300],
       [low1 |-> 2505, high1 |-> 3505, low2 |-> 300, high2 |-> 400],
       [low1 |-> 3505, high1 |-> 5005, low2 |-> 400, high2 |-> 500] >>

AqiReturned == call.fn = "calculate_aqi" /\ result.some

\* aqi lies on the line of band b at pm: aqi - low2 is a whole number of
\* (pm - low1) slopes, the slope being (high2 - low2) / (high1 - low1).
OnLine(b, pm, aqi) ==
    LET rise == aqi - b.low2 * AqiUnit
        run == pm - b.low1
    IN  /\ rise % run = 0
        /\ (rise \div run) * (b.high1 - b.low1) = (b.high2 - b.low2) * AqiUnit

\* C17: calculate_aqi returns 500 above 500, the concentration itself at 0 and
\* below, and in a band the value of the band's line; the upper end of every
\* band gives the band's upper index bound, and 0 gives 0.
C17_BreakpointBands ==
    AqiReturned =>
        LET pm == call.arg[1]
            aqi == result.v
        IN  /\ pm > 5000 => aqi = 500 * AqiUnit
            /\ pm <= 0 => aqi * 10 = pm * AqiUnit
            /\ \A n \in 1..Len(Bands) :
                  /\ (pm > Bands[n].low1 /\ pm <= Bands[n].high1 /\ pm <= 5000)
                        => OnLine(Bands[n], pm, aqi)
                  /\ pm = Bands[n].high1 => aqi = Bands[n].high2 * AqiUnit
                  /\ pm = Bands[1].low1 => aqi = Bands[1].low2 * AqiUnit

\* C17 witness: 35.5, the end of a band, gave exactly 100.
C17_Witness ==
    /\ AqiReturned
    /\ call.arg = << 355 >>
    /\ result.v = 100 * AqiUnit

\* The hour h lies in the window from start to end, both ends included; a
\* window whose start is not earlier than its end runs across midnight.
Inside(start, end, h) ==
    IF start < end THEN h \in start..end
    ELSE h \in (start..(DayLen - 1)) \cup (0..end)

\* A cycle of three sensors with PM2.5 of 10, 12 and 400 has rendered inside
\* the active window with the levels (50, good), (100, moderate).
EndToEndCase ==
    /\ pc = "sleep"
    /\ call.fn = "calculate_consensus"
    /\ DOMAIN data = CycleSensors
    /\ { FieldPm(data[s].rd) : s \in DOMAIN data } = { 100, 120, 4000 }
    /\ Inside(active[1], active[2], Hour(now))
    /\ Len(levels) = 2
    /\ levels[1].th = 50 /\ levels[1].name = "good"
    /\ levels[2].th = 100 /\ levels[2].name = "moderate"

\* The consensus is 50 and the strip shows the colour of the moderate level.
ModerateSelected ==
    /\ result = Some(50 * AqiUnit)
    /\ Shows(pixels, 1 - do_odd, levels[2].rgb)

\* The original C18: the AQIs of the three sensors are about 41.7, 50 and 500
\* (to the digits given), the consensus is 50 and the moderate level is
\* selected.
C18_EndToEndAbout500 ==
    EndToEndCase =>
        /\ \A s \in CycleSensors :
              CASE FieldPm(data[s].rd) = 100 ->
                       2 * call.arg[s] >= 83 * AqiUnit /\ 2 * call.arg[s] < 84 * AqiUnit
                [] FieldPm(data[s].rd) = 120 -> call.arg[s] = 50 * AqiUnit
                [] OTHER ->
                       2 * call.arg[s] >= 999 * AqiUnit /\ 2 * call.arg[s] <= 1001 * AqiUnit
        /\ ModerateSelected

\* C18: the AQIs of the three sensors are 125/3 (about 41.7), 50 and 433, the
\* consensus is 50 and the moderate level is selected.
C18_EndToEnd ==
    EndToEndCase =>
        /\ \A s \in CycleSensors :
              CASE FieldPm(data[s].rd) = 100 -> 3 * call.arg[s] = 125 * AqiUnit
                [] FieldPm(data[s].rd) = 120 -> call.arg[s] = 50 * AqiUnit
                [] OTHER -> call.arg[s] = 433 * AqiUnit
        /\ ModerateSelected

\* C18 witness: the sensors hold 10, 12 and 400 in this order, the cycle has
\* rendered and a pixel shows the colour of the moderate level.
C18_Witness ==
    /\ EndToEndCase
    /\ << FieldPm(data[1].rd), FieldPm(data[2].rd), FieldPm(data[3].rd) >> = << 100, 120, 4000 >>
    /\ \E i \in Leds : pixels[i] = Adjusted(Yellow)

\* C19: the render step of a cycle turns every pixel off when the hour is
\* outside the active window, and inside it does what set_light does with the
\* consensus AQI: the colour of the lowest level above it, or no change.
C19_OffOutsideLightInside ==
    [][(pc = "render" /\ pc' = "sleep") =>
          IF Inside(active[1], active[2], Hour(now))
          THEN IF Above(pm2_5_aqi.v) = {}
               THEN pixels' = pixels /\ do_odd' = do_odd
               ELSE Shows(pixels', do_odd, levels[Lowest(pm2_5_aqi.v)].rgb)
          ELSE \A i \in Leds : pixels'[i] = Black /\ do_odd' = do_odd]_vars

\* C19 witness: a window across midnight, the hour is its last, and the cycle
\* has put the colour of a level on a strip that showed another colour or none.
C19_Witness ==
    /\ pc = "sleep"
    /\ call.fn = "calculate_consensus"
    /\ active[1] > active[2]
    /\ Hour(now) = active[2]
    /\ \E i \in Leds : pixels[i] \in { Adjusted(Green), Adjusted(Yellow) } \ { Black }

\* C20: when a cycle has rendered inside the active window, a pixel of the
\* strip shows the colour of a level.
C20_LevelColourAfterCycle ==
    [][(pc = "render" /\ pc' = "sleep" /\ Inside(active[1], active[2], Hour(now))) =>
          \E i \in Leds : \E k \in 1..Len(levels) :
              pixels'[i] = Adjusted(levels[k].rgb) /\ pixels'[i] # Black]_vars

\* The strip shows a frame of the working animation.
ShowsWorking(px) == \E i \in Leds : px = WorkingFrame(i)

\* C21: a frame of the working animation is put on the strip only at start-up
\* and after a failed cycle; a cycle in progress never shows one; a failed
\* cycle goes to the animation unless it is the third failure in a row, which
\* ends main; and main goes on to the next cycle only after the frames of the
\* animation were shown.
C21_WorkingLightAfterFailure ==
    [][/\ (pixels' # pixels /\ ShowsWorking(pixels')) => pc \in {"boot", "err_anim"}
       /\ pc' \in TryBody => ~ShowsWorking(pixels')
       /\ (pc \in TryBody /\ consec' = consec + 1) =>
              IF consec' < UnhealthyLimit THEN pc' = "err_anim" ELSE pc' = "exit"
       /\ (pc \in TryBody /\ pc' = "err_anim") => consec' = consec + 1
       /\ (pc \in {"boot", "err_anim"} /\ pc' = "cycle") => ShowsWorking(pixels)]_vars

\* C21 witness: the animation is on the strip after the second failed cycle in
\* a row.
C21_Witness ==
    /\ pc = "err_anim"
    /\ consec = 2
    /\ ShowsWorking(pixels)

\* C22: the status thread only reads the slots; a step of it leaves in place
\* every payload whose TTL is not over.
C22_StatusThreadKeepsPayload ==
    [][(call.fn = "_ttl_expired" /\ call' = NoCall) =>
          \A s \in Sensors :
              (data[s].kind = "doc" /\ ~TtlOver(now, data[s].ts)) => data'[s] = data[s]]_vars

\* C23: at the upper end of a band calculate_aqi gives the value that the line
\* of the band above has there, at 500 it gives the 500 of the concentrations
\* above, and it gives no less than for the concentration a tenth below.
C23_NoJumpAtBoundaries ==
    AqiReturned =>
        LET pm == call.arg[1]
            aqi == result.v
        IN  /\ \A n \in 1..(Len(Bands) - 1) :
                  pm = Bands[n].high1 =>
                      aqi = remap(pm, Bands[n + 1].low1, Bands[n + 1].high1,
                                  Bands[n + 1].low2, Bands[n + 1].high2)
            /\ pm = 5000 => aqi = 500 * AqiUnit
            /\ aqi >= calculate_aqi(pm - 1)

\* The least and the greatest value of a list.
MinOf(xs) == CHOOSE v \in { xs[i] : i \in 1..Len(xs) } : \A i \in 1..Len(xs) : v <= xs[i]
MaxOf(xs) == CHOOSE v \in { xs[i] : i \in 1..Len(xs) } : \A i \in 1..Len(xs) : v >= xs[i]

\* Some value of the list is inside the band of the method for its length.
SomeInlier(xs) ==
    /\ Len(xs) \in 4..6 => \E i \in 1..Len(xs) : InIqrBand(xs, xs[i])
    /\ (Len(xs) >= 7 /\ Mad(xs) # 0) => \E i \in 1..Len(xs) : InZBand(xs, xs[i])

\* C24: for a non-empty list some value is an inlier, and the result is not
\* below the least and not above the greatest value of the list.
C24_InlierAndWithinRange ==
    (ConsensusReturned /\ Len(call.arg) >= 1) =>
        /\ SomeInlier(call.arg)
        /\ result.v >= MinOf(call.arg)
        /\ result.v <= MaxOf(call.arg)

\* C25: when a cycle renders inside the active window with the consensus 0.0
\* of an empty AQI list, the strip shows the colour of the lowest level and is
\* not off.
C25_NoDataShowsLowestLevel ==
    [][(pc = "render" /\ pc' = "sleep" /\ pm2_5_aqi = Some(0)
            /\ Inside(active[1], active[2], Hour(now))) =>
          /\ Len(levels) >= 1
          /\ Shows(pixels', do_odd, levels[1].rgb)
          /\ \E i \in Leds : pixels'[i] # Black]_vars

\* C26: the second read of us_epa_pm2_5_aqi, after the presence check found a
\* value, raises nothing and returns calculate_aqi of the payload's PM2.5.
C26_AqiNeverFromNone ==
    lastRead.op = "aqi_value" =>
        /\ lastRead.exc = ""
        /\ lastRead.before.kind = "doc"
        /\ lastRead.aqi = Some(calculate_aqi(FieldPm(lastRead.before.rd)))

====
